---- MODULE Spec2Model ----
(***************************************************************************)
(* Model of filter_listino.py: one run of main() (connect, download,       *)
(* dialect detection, decode, filter, discount column, upload) and the     *)
(* pure functions it is built from (to_number, fmt_decimal, filter_rows,   *)
(* add_prezzo_scontato, guess_csv).                                        *)
(*                                                                         *)
(* A Python str is a sequence of one-character strings; the two characters *)
(* that have no ASCII spelling are written "EUR" (the euro sign) and       *)
(* "NBSP" (U+00A0).  A Python float is a sign, a mantissa and a number of  *)
(* decimal digits (exact decimal fixed point); None is a record of its own.*)
(***************************************************************************)
EXTENDS Integers, Sequences, FiniteSets, TLC

VARIABLES
    \* --- module-level configuration (lines 9-23) ---
    FTP_SECURE, CSV_DELIMITER, FILTER_MODE, FILTER_COLUMN, FILTER_MATCH,
    OUTPUT_DECIMAL,
    \* --- main(): position and locals ---
    pc,         \* position of main() / of the function under study
    ftps,       \* the FTP_TLS object of connect_ftp: "none" | "open" | "closed"
    plain,      \* the FTP object of connect_ftp:     "none" | "open" | "closed"
    ftp,        \* main()'s local ftp: "none" | "ftps" | "plain"
    raw,        \* the downloaded text
    exc,        \* the exception that ended main(): "none" or where it was raised
    dialect,    \* None or [delimiter, lineterminator, kind]
    has_header, \* the header flag guess_csv returned
    rows,       \* decoded rows / the rows handed to the function under study
    headers,    \* header list
    filtered,   \* result of filter_rows, extended by add_prezzo_scontato
    count,      \* the count add_prezzo_scontato reports
    out,        \* the encoded output text
    uploaded,   \* TRUE once storbinary has been issued
    calls       \* number of add_prezzo_scontato calls made so far

vars == <<FTP_SECURE, CSV_DELIMITER, FILTER_MODE, FILTER_COLUMN, FILTER_MATCH,
          OUTPUT_DECIMAL, pc, ftps, plain, ftp, raw, exc, dialect, has_header,
          rows, headers, filtered, count, out, uploaded, calls>>

None == [none |-> TRUE]

-----------------------------------------------------------------------------
(* Evaluation order.  Python evaluates an expression once and names the    *)
(* result; Only({ F(x) : x \in {e} }) is that: e is evaluated, x names its *)
(* value, and F(x) is the result.                                          *)

Only(S) == CHOOSE x \in S : TRUE

-----------------------------------------------------------------------------
(* Strings *)

UPPER == <<"A","B","C","D","E","F","G","H","I","J","K","L","M",
           "N","O","P","Q","R","S","T","U","V","W","X","Y","Z">>
LOWER == <<"a","b","c","d","e","f","g","h","i","j","k","l","m",
           "n","o","p","q","r","s","t","u","v","w","x","y","z">>

\* str.lower() on one character
lower_ch(c) ==
    IF \E i \in 1..26 : UPPER[i] = c
    THEN LOWER[CHOOSE i \in 1..26 : UPPER[i] = c]
    ELSE c

\* str.lower()
lower(s) == [i \in 1..Len(s) |-> lower_ch(s[i])]

\* the characters str.strip() removes
WHITESPACE == {" ", "\t", "\n", "\r", "NBSP"}

\* str.strip()
strip(s) ==
    IF \A i \in 1..Len(s) : s[i] \in WHITESPACE THEN <<>>
    ELSE SubSeq(s,
                CHOOSE i \in 1..Len(s) :
                    s[i] \notin WHITESPACE /\ \A j \in 1..(i-1) : s[j] \in WHITESPACE,
                CHOOSE i \in 1..Len(s) :
                    s[i] \notin WHITESPACE /\ \A j \in (i+1)..Len(s) : s[j] \in WHITESPACE)

\* str.replace(ch, "") for a one-character ch
remove_ch(s, ch) == SelectSeq(s, LAMBDA c : c # ch)

\* str.replace(a, b) for one-character a and b
replace_ch(s, a, b) == [i \in 1..Len(s) |-> IF s[i] = a THEN b ELSE s[i]]

\* ch in s
contains(s, ch) == \E i \in 1..Len(s) : s[i] = ch

\* str.rfind(ch): 0-based index of the last occurrence, -1 when absent
rfind(s, ch) ==
    IF contains(s, ch)
    THEN (CHOOSE i \in 1..Len(s) :
              s[i] = ch /\ \A j \in (i+1)..Len(s) : s[j] # ch) - 1
    ELSE -1

\* str.find(ch), as a 1-based position; 0 when absent
find(s, ch) ==
    IF contains(s, ch)
    THEN CHOOSE i \in 1..Len(s) : s[i] = ch /\ \A j \in 1..(i-1) : s[j] # ch
    ELSE 0

\* s.split(ch)[-1]: what follows the last ch (all of s when ch is absent)
last_field(s, ch) == SubSeq(s, rfind(s, ch) + 2, Len(s))

DIGITS == <<"0","1","2","3","4","5","6","7","8","9">>

is_digit(c) == \E i \in 1..10 : DIGITS[i] = c

digit_value(c) == (CHOOSE i \in 1..10 : DIGITS[i] = c) - 1

\* str.isdigit(): non-empty and digits only
isdigit(s) == Len(s) > 0 /\ \A i \in 1..Len(s) : is_digit(s[i])

\* value of a (possibly empty) run of digits
digits_value(s) ==
    LET dv[i \in 0..Len(s)] ==
            IF i = 0 THEN 0 ELSE 10 * dv[i - 1] + digit_value(s[i])
    IN  dv[Len(s)]

pow10(k) ==
    LET p[i \in 0..k] == IF i = 0 THEN 1 ELSE 10 * p[i - 1]
    IN  p[k]

\* decimal digits of a natural number, as str() writes them
digits_of(n) ==
    LET d[i \in 0..n] ==
            IF i < 10 THEN <<DIGITS[i + 1]>>
            ELSE d[i \div 10] \o <<DIGITS[(i % 10) + 1]>>
    IN  d[n]

-----------------------------------------------------------------------------
(* Numbers: [neg, m, k] stands for (-1)^neg * m / 10^k *)

Num(neg, m, k) == [neg |-> neg, m |-> m, k |-> k]

\* a and b denote the same magnitude
SameMagnitude(a, b) == a.m * pow10(b.k) = b.m * pow10(a.k)

\* |a| <= |b|
MagnitudeLeq(a, b) == a.m * pow10(b.k) <= b.m * pow10(a.k)

\* the digits before and after the point of an unsigned literal
float_digits(body, dot) ==
    LET ip == IF dot < 0 THEN body ELSE SubSeq(body, 1, dot)
        fp == IF dot < 0 THEN <<>> ELSE SubSeq(body, dot + 2, Len(body))
    IN  IF /\ \A i \in 1..Len(ip) : is_digit(ip[i])
           /\ \A i \in 1..Len(fp) : is_digit(fp[i])
           /\ Len(ip) + Len(fp) > 0
        THEN [m |-> digits_value(ip \o fp), k |-> Len(fp)]
        ELSE None

\* float() on a text without surrounding white space
float_literal(s) ==
    LET sign == Len(s) > 0 /\ s[1] \in {"+", "-"}
    IN  Only({ IF md = None THEN None
               ELSE Num(sign /\ s[1] = "-", md.m, md.k) :
               md \in { Only({ float_digits(body, rfind(body, ".")) :
                               body \in {IF sign THEN SubSeq(s, 2, Len(s)) ELSE s} }) } })

\* float(s), line 207, for the literals  [ws] [+-] (d+ [. d*] | . d+) [ws] ;
\* any other text raises ValueError, which is the value None here.  Exponents,
\* underscores and the words inf / nan are outside the characters the model
\* draws cells from.
float(s0) == Only({ float_literal(s) : s \in {strip(s0)} })

\* is_thousands_tail, lines 185-186
is_thousands_tail(tail) == Len(tail) \in {3, 6, 9} /\ isdigit(tail)

\* lines 182-204: the text with its separators reduced to one decimal point
separators(s) ==
    LET has_comma == contains(s, ",")
        has_dot   == contains(s, ".")
    IN  IF has_comma /\ has_dot
        THEN IF rfind(s, ",") > rfind(s, ".")
             THEN replace_ch(remove_ch(s, "."), ",", ".")
             ELSE remove_ch(s, ",")
        ELSE IF has_comma
        THEN IF is_thousands_tail(last_field(s, ","))
             THEN remove_ch(s, ",")
             ELSE replace_ch(s, ",", ".")
        ELSE IF has_dot
        THEN IF is_thousands_tail(last_field(s, "."))
             THEN remove_ch(s, ".")
             ELSE s
        ELSE s

\* lines 206-212
parse(neg, s) ==
    Only({ IF num = None THEN None
           ELSE IF neg THEN Num(~num.neg, num.m, num.k)
           ELSE num :
           num \in {float(s)} })

\* lines 175-204: the minus sign, the currency sign and the blanks
strip_minus(neg, s) ==
    LET minus == Len(s) > 0 /\ s[1] = "-"
    IN  Only({ parse(neg \/ minus, t) :
               t \in { Only({ separators(u) :
                              u \in { remove_ch(remove_ch(remove_ch(
                                          IF minus THEN strip(SubSeq(s, 2, Len(s))) ELSE s,
                                          "EUR"), " "), "NBSP") } }) } })

\* lines 171-174: the parentheses
strip_parens(s) ==
    LET par == Len(s) > 0 /\ s[1] = "(" /\ s[Len(s)] = ")"
    IN  Only({ strip_minus(par, t) :
               t \in {IF par THEN strip(SubSeq(s, 2, Len(s) - 1)) ELSE s} })

\* to_number, lines 156-212
to_number(val) ==
    Only({ IF Len(s) = 0 THEN None ELSE strip_parens(s) : s \in {strip(val)} })

\* f"{num:.2f}" in hundredths: the value rounded half-to-even
round_cents(m, k) ==
    IF k <= 2 THEN m * pow10(2 - k)
    ELSE Only({ IF 2 * (m % D) > D \/ (2 * (m % D) = D /\ (m \div D) % 2 = 1)
                THEN (m \div D) + 1
                ELSE m \div D :
                D \in {pow10(k - 2)} })

\* fmt_decimal, lines 266-268
fmt_decimal(num) ==
    Only({ (IF num.neg THEN <<"-">> ELSE <<>>)
           \o digits_of(cents \div 100)
           \o <<IF OUTPUT_DECIMAL = "dot" THEN "." ELSE ",",
                DIGITS[((cents % 100) \div 10) + 1], DIGITS[(cents % 10) + 1]>> :
           cents \in {round_cents(num.m, num.k)} })

-----------------------------------------------------------------------------
(* RowFilter *)

\* filter_rows, lines 140-151 (idx is 1-based here)
filter_rows(rs, hs) ==
    IF FILTER_MODE = "column" /\ \E i \in 1..Len(hs) : hs[i] = FILTER_COLUMN
    THEN Only({ SelectSeq(rs, LAMBDA r : Len(r) >= idx /\ strip(r[idx]) = FILTER_MATCH) :
                idx \in {CHOOSE i \in 1..Len(hs) :
                             hs[i] = FILTER_COLUMN /\ \A j \in 1..(i-1) : hs[j] # FILTER_COLUMN} })
    ELSE SelectSeq(rs, LAMBDA r : \E c \in 1..Len(r) : strip(r[c]) = FILTER_MATCH)

-----------------------------------------------------------------------------
(* PREZZO_SCONTATO *)

LIPREZZO == <<"L","I","P","R","E","Z","Z","O">>
LISCONT1 == <<"L","I","S","C","O","N","T","1">>
PREZZO_SCONTATO == <<"P","R","E","Z","Z","O","_","S","C","O","N","T","A","T","O">>

\* find_col, lines 218-223: 1-based position of the first header that equals
\* name after strip().lower(); 0 stands for None
find_col(hs, name) ==
    Only({ IF hits = {} THEN 0 ELSE CHOOSE i \in hits : \A j \in hits : i <= j :
           hits \in { {i \in 1..Len(hs) : lower(strip(hs[i])) = lower(name)} } })

\* lines 232-233: the duplicate-name guard
guard_headers(hs) ==
    IF \E i \in 1..Len(hs) : strip(hs[i]) = PREZZO_SCONTATO
    THEN hs
    ELSE Append(hs, PREZZO_SCONTATO)

\* normalizza_sconto without abs(): a negative discount keeps its sign
normalizza_sconto_senza_abs(sconto) ==
    IF sconto = None THEN Num(FALSE, 0, 0)
    ELSE IF ~sconto.neg /\ sconto.m > 100 * pow10(sconto.k) THEN Num(FALSE, 100, 0)
    ELSE Num(sconto.neg, sconto.m, sconto.k)

\* lines 251-256: the discount the row is computed with
normalizza_sconto(sconto) ==
    IF sconto = None THEN Num(FALSE, 0, 0)
    ELSE IF sconto.m > 100 * pow10(sconto.k) THEN Num(FALSE, 100, 0)
    ELSE Num(FALSE, sconto.m, sconto.k)

\* line 258: prezzo * (1.0 - sconto / 100.0)
prezzo_scontato(prezzo, sconto) ==
    Only({ Num(IF f < 0 THEN ~prezzo.neg ELSE prezzo.neg,
               prezzo.m * (IF f < 0 THEN -f ELSE f),
               prezzo.k + sconto.k + 2) :
           f \in {100 * pow10(sconto.k) - (IF sconto.neg THEN -sconto.m ELSE sconto.m)} })

\* calcola with an unparseable price read as zero instead of skipped
calcola_prezzo_zero(prezzo, sconto) ==
    [cell |-> Only({ fmt_decimal(ps) :
                     ps \in { Only({ prezzo_scontato(IF prezzo = None THEN Num(FALSE, 0, 0)
                                                     ELSE prezzo, sc) :
                                     sc \in {normalizza_sconto(sconto)} }) } }),
     counted |-> TRUE]

\* lines 243-261: the cell for a parsed price and a parsed discount
calcola(prezzo, sconto) ==
    IF prezzo = None
    THEN [cell |-> <<>>, counted |-> FALSE]
    ELSE [cell |-> Only({ fmt_decimal(ps) :
                          ps \in { Only({ prezzo_scontato(prezzo, sc) :
                                          sc \in {normalizza_sconto(sconto)} }) } }),
          counted |-> TRUE]

\* lines 237-261, one turn of the loop: the cell appended to row r and
\* whether the row is counted
riga(r, idx_prezzo, idx_sconto) ==
    IF Len(r) < (IF idx_prezzo > idx_sconto THEN idx_prezzo ELSE idx_sconto)
    THEN [cell |-> <<>>, counted |-> FALSE]
    ELSE Only({ calcola(ps[1], ps[2]) :
                ps \in {<<to_number(r[idx_prezzo]), to_number(r[idx_sconto])>>} })

\* lines 232-263, once both columns are found
calcola_righe(hs, rs, idx_prezzo, idx_sconto) ==
    Only({ [headers |-> guard_headers(hs),
            rows    |-> [i \in 1..Len(rs) |-> Append(rs[i], done[i].cell)],
            count   |-> [n |-> Cardinality({i \in 1..Len(rs) : done[i].counted})]] :
           done \in { [i \in 1..Len(rs) |-> riga(rs[i], idx_prezzo, idx_sconto)] } })

\* add_prezzo_scontato, lines 217-263: the headers and rows as the call leaves
\* them, and the count it prints (None when it returns at line 230)
add_prezzo_scontato(hs, rs) ==
    Only({ IF idx[1] = 0 \/ idx[2] = 0
           THEN [headers |-> hs, rows |-> rs, count |-> None]
           ELSE calcola_righe(hs, rs, idx[1], idx[2]) :
           idx \in {<<find_col(hs, LIPREZZO), find_col(hs, LISCONT1)>>} })

-----------------------------------------------------------------------------
(* CSV *)

AUTO == <<"a","u","t","o">>

\* the candidate delimiters handed to csv.Sniffer().sniff, line 124
SNIFF_DELIMITERS == {",", ";", "\t", "|", ":"}

\* What csv.Sniffer().sniff(text[:4096], delimiters) can do at line 124: raise
\* csv.Error ("Error"), or return a dialect whose delimiter is a candidate that
\* occurs in the text.  On the empty text it always raises.
SniffOutcomes(text) == {"Error"} \cup {c \in SNIFF_DELIMITERS : contains(text, c)}

\* What csv.Sniffer().has_header(text[:4096]) can do at lines 102, 119, 125:
\* raise csv.Error (its own, unrestricted sniff failed) or answer.  On the
\* empty text it always raises.
HeaderOutcomes(text) == IF text = <<>> THEN {"Error"} ELSE {"Error", "True", "False"}

\* text.splitlines()[0] if text else "", line 108 (the text holds no line
\* break other than "\n")
first_line(text) ==
    IF contains(text, "\n") THEN SubSeq(text, 1, find(text, "\n") - 1) ELSE text

Dialect(d, lt, kind) == [delimiter |-> d, lineterminator |-> lt, kind |-> kind]

\* the fallback of lines 129-138
Simple == [raised |-> FALSE, dialect |-> Dialect(";", <<"\n">>, "Simple"), has_header |-> TRUE]

\* an exception leaving guess_csv
Raised == [raised |-> TRUE, dialect |-> None, has_header |-> FALSE]

\* guess_csv, lines 88-138, on the decoded sample, given what the two Sniffer
\* calls do: sniffed (line 124) and hdr (lines 102, 119, 125)
guess_csv(text, sniffed, hdr) ==
    IF Len(CSV_DELIMITER) > 0 /\ CSV_DELIMITER # AUTO
    THEN \* lines 93-104: nothing catches what has_header or Forced() raises
         IF hdr = "Error" \/ Len(CSV_DELIMITER) # 1
         THEN Raised
         ELSE [raised |-> FALSE,
               dialect |-> Dialect(CSV_DELIMITER[1], <<"\n">>, "Forced"),
               has_header |-> (hdr = "True")]
    ELSE \* lines 107-138
         IF Only({ contains(fl, ";") /\ contains(fl, ",") : fl \in {first_line(text)} })
         THEN IF hdr = "Error"
              THEN Simple
              ELSE [raised |-> FALSE,
                    dialect |-> Dialect(";", <<"\n">>, "Pref"),
                    has_header |-> (hdr = "True")]
         ELSE IF sniffed = "Error" \/ hdr = "Error"
              THEN Simple
              ELSE [raised |-> FALSE,
                    dialect |-> Dialect(sniffed, <<"\r", "\n">>, "Sniffed"),
                    has_header |-> (hdr = "True")]

\* str.split(ch) for a one-character ch
split(s, ch) ==
    Only({ [i \in 1..(Len(cuts) - 1) |-> SubSeq(s, cuts[i] + 1, cuts[i + 1] - 1)] :
           cuts \in { <<0>> \o SelectSeq([i \in 1..Len(s) |-> i], LAMBDA i : s[i] = ch)
                      \o <<Len(s) + 1>> } })

\* list(csv.reader(io.StringIO(text), dialect)), lines 283-284, for a text
\* without quote characters: one row per line, an empty line is the row []
csv_reader(text, d) ==
    Only({ [i \in 1..(IF pieces[Len(pieces)] = <<>> THEN Len(pieces) - 1 ELSE Len(pieces)) |->
               IF pieces[i] = <<>> THEN <<>> ELSE split(pieces[i], d.delimiter)] :
           pieces \in {split(text, "\n")} })

\* QUOTE_MINIMAL: the field is quoted when it holds the delimiter, the quote
\* character or a character of the line terminator
csv_field(f, d) ==
    IF \E i \in 1..Len(f) :
           \/ f[i] \in {d.delimiter, "\""}
           \/ contains(d.lineterminator, f[i])
    THEN <<"\"">> \o f \o <<"\"">>
    ELSE f

\* the concatenation of a sequence of texts
concat(ts) ==
    LET c[i \in 0..Len(ts)] == IF i = 0 THEN <<>> ELSE c[i - 1] \o ts[i]
    IN  c[Len(ts)]

\* writer.writerow(row): a row of one empty field is written as ""
csv_writerow(row, d) ==
    (IF row = << <<>> >> THEN <<"\"", "\"">>
     ELSE concat([i \in 1..Len(row) |->
                     (IF i > 1 THEN <<d.delimiter>> ELSE <<>>) \o csv_field(row[i], d)]))
    \o d.lineterminator

\* lines 296-300: the output text
encode(hs, rs, d) ==
    csv_writerow(hs, d) \o concat([i \in 1..Len(rs) |-> csv_writerow(rs[i], d)])

-----------------------------------------------------------------------------
(* Bounds and the inputs the model draws *)

MaxText == 2        \* longest generated remote file, in characters
MaxRows == 2        \* most rows of a generated table
MaxCalls == 2       \* most successive calls of add_prezzo_scontato
MaxSconto == 110    \* generated discounts are the integers -MaxSconto..MaxSconto
MaxCents == 3       \* generated prices are -MaxCents..MaxCents hundredths

NOTE == <<"N","O","T","E">>
CODICE == <<"C","O","D","I","C","E">>
L6 == <<"L","6">>

\* sequences over S of length at most n
SeqUpTo(S, n) == UNION {[1..k -> S] : k \in 0..n}

\* the text of an integer, as a cell
IntCell(n) == IF n < 0 THEN <<"-">> \o digits_of(-n) ELSE digits_of(n)

\* the text of c hundredths with a decimal comma, as a cell
CentsCell(c) ==
    LET a == IF c < 0 THEN -c ELSE c
    IN  (IF c < 0 THEN <<"-">> ELSE <<>>) \o digits_of(a \div 100)
        \o <<",", DIGITS[((a % 100) \div 10) + 1], DIGITS[(a % 10) + 1]>>

P100 == <<"1","0","0",",","0","0">>
P50 == <<"5","0",",","0","0">>
P2530 == <<"2",".","5","3","0",",","0","0">>
PNEG == <<"(","1","2","3",",","4","0",")">>
ABC == <<"a","b","c">>

\* whole price lists a run may download, beside the generated short texts
Listino1 ==
    LIPREZZO \o <<";">> \o LISCONT1 \o <<";">> \o NOTE \o <<"\n">>
    \o P100 \o <<";","1","0",";">> \o L6 \o <<"\n">>
    \o P50 \o <<";",";">> \o L6 \o <<"\n">>
    \o P50 \o <<";","5",";","x","\n">>
Listino2 ==
    <<"1",",","5",";","2","\n","3",",","5",";","4","\n","5",",","5",";","6",";">>
    \o L6 \o <<"\n">>
Listino3 ==
    LIPREZZO \o <<"|">> \o LISCONT1 \o <<"|">> \o NOTE \o <<"\n">>
    \o <<"7","|","5","0","|">> \o L6 \o <<"\n">>

RemoteFiles ==
    SeqUpTo({"x", ";", ",", "\n"}, MaxText) \cup {Listino1, Listino2, Listino3}

-----------------------------------------------------------------------------
(* main() *)

Idle ==
    /\ ftps = "none" /\ plain = "none" /\ ftp = "none"
    /\ raw = <<>> /\ exc = "none" /\ dialect = None /\ has_header = FALSE
    /\ out = <<>> /\ uploaded = FALSE /\ count = None /\ calls = 0

Init ==
    /\ FTP_SECURE \in BOOLEAN
    /\ CSV_DELIMITER \in {AUTO, <<";">>, <<";", ";">>}
    /\ FILTER_MODE \in {"any", "column"}
    /\ FILTER_COLUMN = NOTE
    /\ FILTER_MATCH = L6
    /\ OUTPUT_DECIMAL \in {"dot", "comma"}
    /\ pc = "start"
    /\ rows = <<>> /\ headers = <<>> /\ filtered = <<>>
    /\ Idle

config == <<FTP_SECURE, CSV_DELIMITER, FILTER_MODE, FILTER_COLUMN, FILTER_MATCH,
            OUTPUT_DECIMAL>>
conn == <<ftps, plain, ftp>>
table == <<rows, headers, filtered, count, calls>>

\* lines 274-276: a missing mandatory setting ends the run before connecting
CheckEnv ==
    /\ pc = "start"
    /\ \E ok \in BOOLEAN : pc' = IF ok THEN "connect" ELSE "returned"
    /\ UNCHANGED <<config, conn, table, raw, exc, dialect, has_header, out, uploaded>>

\* line 278 and connect_ftp, lines 28-46.  Each transport either fails before
\* its socket exists ("connect_failed"), fails with the socket open
\* ("login_failed": auth, prot_p or login raised) or succeeds.
ConnectFtp ==
    /\ pc = "connect"
    /\ \E s \in (IF FTP_SECURE THEN {"ok", "connect_failed", "login_failed"}
                             ELSE {"skipped"}),
          p \in {"ok", "connect_failed", "login_failed"} :
          IF s = "ok"
          THEN /\ ftps' = "open" /\ plain' = "none" /\ ftp' = "ftps"
               /\ pc' = "download" /\ exc' = exc
          ELSE /\ ftps' = IF s = "login_failed" THEN "open" ELSE "none"
               /\ plain' = IF p = "connect_failed" THEN "none" ELSE "open"
               /\ ftp' = IF p = "ok" THEN "plain" ELSE "none"
               /\ pc' = IF p = "ok" THEN "download" ELSE "raised"
               /\ exc' = IF p = "ok" THEN exc ELSE "connect_ftp"
    /\ UNCHANGED <<config, table, raw, dialect, has_header, out, uploaded>>

\* line 279 and download_file, lines 73-79: cwd / RETR raise, or the text
DownloadFile ==
    /\ pc = "download"
    /\ \/ /\ \E text \in RemoteFiles : raw' = text
          /\ pc' = "guess" /\ exc' = exc
       \/ /\ raw' = raw /\ pc' = "raised" /\ exc' = "download_file"
    /\ UNCHANGED <<config, conn, table, dialect, has_header, out, uploaded>>

\* line 280
GuessCsv ==
    /\ pc = "guess"
    /\ \E sniffed \in SniffOutcomes(raw), hdr \in HeaderOutcomes(raw) :
          LET g == guess_csv(raw, sniffed, hdr)
          IN  IF g.raised
              THEN /\ pc' = "raised" /\ exc' = "guess_csv"
                   /\ UNCHANGED <<dialect, has_header>>
              ELSE /\ pc' = "decode" /\ exc' = exc
                   /\ dialect' = g.dialect /\ has_header' = g.has_header
    /\ UNCHANGED <<config, conn, headers, filtered, count, calls, rows, raw, out, uploaded>>

\* ftp.quit(), lines 287 and 305
Quit ==
    /\ ftps' = IF ftp = "ftps" THEN "closed" ELSE ftps
    /\ plain' = IF ftp = "plain" THEN "closed" ELSE plain
    /\ ftp' = ftp

\* lines 282-288: decode; an empty file is reported and ends the run
Decode ==
    /\ pc = "decode"
    /\ rows' = csv_reader(raw, dialect)
    /\ IF rows' = <<>>
       THEN Quit /\ pc' = "returned"
       ELSE UNCHANGED conn /\ pc' = "headers"
    /\ UNCHANGED <<config, headers, filtered, count, calls, raw, exc, dialect,
                   has_header, out, uploaded>>

\* f"col_{i+1}", line 290
col(i) == <<"c", "o", "l", "_">> \o digits_of(i)

\* lines 290-293: headers, body, filter_rows
Filter ==
    /\ pc = "headers"
    /\ headers' = IF has_header THEN rows[1]
                  ELSE [i \in 1..Len(rows[1]) |-> col(i)]
    /\ filtered' = filter_rows(IF has_header THEN Tail(rows) ELSE rows, headers')
    /\ pc' = "augment"
    /\ UNCHANGED <<config, conn, rows, count, calls, raw, exc, dialect, has_header,
                   out, uploaded>>

\* line 294
Augment ==
    /\ pc = "augment"
    /\ LET res == add_prezzo_scontato(headers, filtered)
       IN  /\ headers' = res.headers
           /\ filtered' = res.rows
           /\ count' = res.count
    /\ calls' = calls + 1
    /\ pc' = "upload"
    /\ UNCHANGED <<config, conn, rows, raw, exc, dialect, has_header, out, uploaded>>

\* lines 296-305 and upload_bytes, lines 81-83: encode, then cwd / STOR raise,
\* or the file is stored and the connection is quit
Upload ==
    /\ pc = "upload"
    /\ out' = encode(headers, filtered, dialect)
    /\ \/ /\ uploaded' = TRUE /\ Quit /\ pc' = "returned" /\ exc' = exc
       \/ /\ UNCHANGED <<uploaded, conn>> /\ pc' = "raised" /\ exc' = "upload_bytes"
    /\ UNCHANGED <<config, table, raw, dialect, has_header>>

Next ==
    \/ CheckEnv \/ ConnectFtp \/ DownloadFile \/ GuessCsv \/ Decode
    \/ Filter \/ Augment \/ Upload

Spec == Init /\ [][Next]_vars

-----------------------------------------------------------------------------
(* filter_rows on its own *)

SP_L6 == <<" ">> \o L6 \o <<" ">>
DIECI == <<"1", "0">>

FilterHeaders == { <<LIPREZZO, LISCONT1, NOTE>>, <<NOTE, LIPREZZO>> }

FilterRowPool ==
    { <<>>, <<P100>>, <<P100, DIECI, L6>>, <<P100, DIECI, SP_L6>>,
      <<L6, DIECI, ABC>>, <<P100, DIECI, <<>> >> }

InitFilter ==
    /\ FTP_SECURE = FALSE /\ CSV_DELIMITER = AUTO /\ OUTPUT_DECIMAL = "dot"
    /\ FILTER_MODE \in {"any", "column"}
    /\ FILTER_COLUMN \in {NOTE, CODICE}
    /\ FILTER_MATCH \in {L6, <<>>}
    /\ pc = "filter_rows"
    /\ headers \in FilterHeaders
    /\ rows \in SeqUpTo(FilterRowPool, MaxRows)
    /\ filtered = <<>>
    /\ Idle

\* one call filter_rows(rows, headers)
FilterRowsCall ==
    /\ pc = "filter_rows"
    /\ filtered' = filter_rows(rows, headers)
    /\ pc' = "filtered"
    /\ UNCHANGED <<config, conn, rows, headers, count, calls, raw, exc, dialect,
                   has_header, out, uploaded>>

SpecFilter == InitFilter /\ [][FilterRowsCall]_vars

-----------------------------------------------------------------------------
(* add_prezzo_scontato on its own, called up to MaxCalls times *)

AugHeaders ==
    { <<LIPREZZO, LISCONT1>>,
      <<LIPREZZO, LISCONT1, NOTE>>,
      <<<<" ">> \o lower(LISCONT1) \o <<" ">>, NOTE, lower(LIPREZZO)>>,
      <<LIPREZZO, LISCONT1, PREZZO_SCONTATO>>,
      <<LIPREZZO, LISCONT1, lower(PREZZO_SCONTATO)>>,
      <<LIPREZZO, <<" ", "P", "r", "e", "z", "z", "o", "_", "S", "c", "o", "n",
                    "t", "a", "t", "o", " ">>, LISCONT1>>,
      <<LIPREZZO, NOTE>> }

AugRowPool ==
    { <<>>, <<P100>>, <<P100, DIECI>>, <<P100, DIECI, L6>>, <<ABC, DIECI, L6>>,
      <<P50, <<>>, L6>>, <<DIECI, L6, P2530>> }

InitAug ==
    /\ FTP_SECURE = FALSE /\ CSV_DELIMITER = AUTO
    /\ FILTER_MODE = "any" /\ FILTER_COLUMN = <<>> /\ FILTER_MATCH = L6
    /\ OUTPUT_DECIMAL \in {"dot", "comma"}
    /\ pc = "add_prezzo_scontato"
    /\ headers \in AugHeaders
    /\ rows \in SeqUpTo(AugRowPool, MaxRows)
    /\ filtered = rows
    /\ Idle

\* one call add_prezzo_scontato(headers, filtered)
AddPrezzoScontatoCall ==
    /\ pc = "add_prezzo_scontato"
    /\ calls < MaxCalls
    /\ LET res == add_prezzo_scontato(headers, filtered)
       IN  /\ headers' = res.headers
           /\ filtered' = res.rows
           /\ count' = res.count
    /\ calls' = calls + 1
    /\ UNCHANGED <<config, conn, pc, rows, raw, exc, dialect, has_header, out, uploaded>>

SpecAug == InitAug /\ [][AddPrezzoScontatoCall]_vars

-----------------------------------------------------------------------------
(* The discount: two rows with one price, the second holding the discount  *)
(* of the first as its absolute value capped at 100                        *)

PrezzoCells == {P100, P2530, PNEG} \cup {CentsCell(c) : c \in (-MaxCents)..MaxCents}

\* a discount cell and the cell of its normal form
ScontoPairs ==
    {<<IntCell(d), IntCell(IF d < -100 \/ d > 100 THEN 100 ELSE IF d < 0 THEN -d ELSE d)>> :
        d \in (-MaxSconto)..MaxSconto}
    \cup {<<<<>>, <<"0">>>>, <<ABC, <<"0">>>>, <<<<"0", ",", "0">>, <<"0">>>>,
          <<<<"-", "1", "2", ",", "5">>, <<"1", "2", ".", "5">>>>}

InitDisc ==
    /\ FTP_SECURE = FALSE /\ CSV_DELIMITER = AUTO
    /\ FILTER_MODE = "any" /\ FILTER_COLUMN = <<>> /\ FILTER_MATCH = L6
    /\ OUTPUT_DECIMAL \in {"dot", "comma"}
    /\ pc = "add_prezzo_scontato"
    /\ headers = <<LIPREZZO, LISCONT1>>
    /\ \E prezzo \in PrezzoCells, sc \in ScontoPairs :
          rows = << <<prezzo, sc[1]>>, <<prezzo, sc[2]>> >>
    /\ filtered = rows
    /\ Idle

SpecDisc == InitDisc /\ [][AddPrezzoScontatoCall]_vars

-----------------------------------------------------------------------------
(* Properties *)

Ended == pc \in {"returned", "raised"}

\* both source columns are found (line 228 does not return)
Found(hs) == find_col(hs, LIPREZZO) # 0 /\ find_col(hs, LISCONT1) # 0

\* the larger of the two source column positions
Needed(hs) ==
    Only({ IF idx[1] > idx[2] THEN idx[1] ELSE idx[2] :
           idx \in {<<find_col(hs, LIPREZZO), find_col(hs, LISCONT1)>>} })

\* C1: a run that acquired the connection never ends with a connection open:
\* neither the one main() holds nor a secure one connect_ftp() abandoned
C1_ReleasedOnEveryExit ==
    (Ended /\ ftp # "none") => (ftps # "open" /\ plain # "open")

\* C2: in named-column mode the result is exactly the rows whose cell under
\* the FILTER_COLUMN header (a missing cell being the empty cell) equals
\* FILTER_MATCH after trimming, and it is empty when no header is FILTER_COLUMN
C2_NamedColumn ==
    (pc = "filtered" /\ FILTER_MODE = "column") =>
        filtered =
            IF \E i \in 1..Len(headers) : headers[i] = FILTER_COLUMN
            THEN Only({ SelectSeq(rows,
                            LAMBDA r : strip(IF Len(r) >= idx THEN r[idx] ELSE <<>>)
                                       = FILTER_MATCH) :
                        idx \in {CHOOSE i \in 1..Len(headers) :
                                     /\ headers[i] = FILTER_COLUMN
                                     /\ \A j \in 1..(i-1) : headers[j] # FILTER_COLUMN} })
            ELSE <<>>

\* C3: with both source columns present, the second call in a row leaves the
\* table as the first call left it
C3_SecondCallChangesNothing ==
    [][(calls = 1 /\ calls' = 2 /\ Found(headers))
          => (headers' = headers /\ filtered' = filtered)]_vars

\* C4: a run that downloaded an empty file ends by returning, with no
\* exception and no upload
C4_EmptyInputReturns ==
    (Ended /\ ftp # "none" /\ exc # "download_file" /\ raw = <<>>)
        => (pc = "returned" /\ exc = "none" /\ ~uploaded)

\* the cell count of the widest row
Widest(rs) == CHOOSE n \in {Len(rs[i]) : i \in 1..Len(rs)} :
                  \A i \in 1..Len(rs) : Len(rs[i]) <= n

\* C5: without a header row the headers are col_1 .. col_N, N the cell count
\* of the widest decoded row
C5_HeadersAsWideAsWidestRow ==
    (pc = "augment" /\ ~has_header) =>
        headers = [i \in 1..Widest(rows) |-> col(i)]

\* the value of a discount cell as its absolute value capped at 100
Normale(d) == IF d.m > 100 * pow10(d.k) THEN Num(FALSE, 100, 0) ELSE Num(FALSE, d.m, d.k)

C7_GuessCsvPriority ==
    /\ exc # "guess_csv"
    /\ dialect # None =>
          IF Len(CSV_DELIMITER) > 0 /\ CSV_DELIMITER # AUTO
          THEN <<dialect.delimiter>> = CSV_DELIMITER
          ELSE IF contains(first_line(raw), ";") /\ contains(first_line(raw), ",")
          THEN dialect.delimiter = ";"
          ELSE \/ dialect.delimiter \in SNIFF_DELIMITERS /\ contains(raw, dialect.delimiter)
               \/ dialect.delimiter = ";" /\ has_header

\* some header is PREZZO_SCONTATO up to case and surrounding white space
HasDiscountName(hs) ==
    \E i \in 1..Len(hs) : lower(strip(hs[i])) = lower(PREZZO_SCONTATO)

\* C8: a call appends no header when one is PREZZO_SCONTATO up to case and
\* surrounding white space, and at most one otherwise
C8_NoDuplicateHeader ==
    [][/\ HasDiscountName(headers) => headers' = headers
       /\ headers' = headers \/ headers' = Append(headers, PREZZO_SCONTATO)]_vars

\* C9: with both source columns present, one call keeps every row and every
\* cell in place and appends one cell to each row, empty exactly when the row
\* is too short for both source columns or its price does not parse; the
\* count is the number of non-empty appended cells
C9_OneCellPerRow ==
    (calls = 1 /\ Found(headers)) =>
        /\ Len(filtered) = Len(rows)
        /\ count # None
        /\ \A i \in 1..Len(rows) :
              /\ Len(filtered[i]) = Len(rows[i]) + 1
              /\ SubSeq(filtered[i], 1, Len(rows[i])) = rows[i]
              /\ (filtered[i][Len(filtered[i])] = <<>>) <=>
                    \/ Len(rows[i]) < Needed(headers)
                    \/ to_number(rows[i][find_col(headers, LIPREZZO)]) = None
        /\ count.n = Cardinality({i \in 1..Len(rows) :
                                     filtered[i][Len(filtered[i])] # <<>>})

\* C9 witness: one call met a short row, given an empty cell, and a full row,
\* given a computed cell
C9_Witness ==
    /\ calls = 1 /\ OUTPUT_DECIMAL = "comma"
    /\ headers = <<LIPREZZO, LISCONT1, NOTE, PREZZO_SCONTATO>>
    /\ rows = << <<P100>>, <<P100, DIECI, L6>> >>
    /\ filtered = << <<P100, <<>> >>,
                     <<P100, DIECI, L6, <<"9", "0", ",", "0", "0">> >> >>
    /\ count = [n |-> 1]

\* C10: with both source columns present, every cell the calls appended to a
\* row sits under a PREZZO_SCONTATO header
C10_AppendedCellsUnderHeader ==
    (calls >= 1 /\ Found(headers)) =>
        \A i \in 1..Len(rows) :
            \A j \in (Len(rows[i]) + 1)..Len(filtered[i]) :
                j <= Len(headers) /\ strip(headers[j]) = PREZZO_SCONTATO

====
